---- MODULE Spec2Model ----
(***************************************************************************)
(* ActionHistoryComponent (forge/components/action_history):               *)
(* the episode ledger driven by after_parse / after_execute, and the       *)
(* digest compiler _compile_progress.                                      *)
(*                                                                         *)
(* Text is a sequence of one-character strings.  Optional values are       *)
(* sequences of length 0 (None) or 1 (a value).                            *)
(***************************************************************************)
EXTENDS Integers, Sequences, FiniteSets, TLC

VARIABLES episodes, pc, ret

vars == <<episodes, pc, ret>>

\* ---------------------------------------------------------------- bounds
MaxEpisodes == 6

\* ------------------------------------------------------------- Optional
None == <<>>

Some(v) == <<v>>

IsNone(x) == x = <<>>

Val(x) == x[1]

\* Python truthiness of an Optional[int]: None and 0 are falsy.
Truthy(x) == ~IsNone(x) /\ Val(x) # 0

\* ------------------------------------------------------- text primitives
IsSpace(c) == c \in {" ", "\n", "\t"}

RECURSIVE LStrip(_)
LStrip(t) == IF t # <<>> /\ IsSpace(Head(t)) THEN LStrip(Tail(t)) ELSE t

RECURSIVE RStrip(_)
RStrip(t) ==
    IF t # <<>> /\ IsSpace(t[Len(t)]) THEN RStrip(SubSeq(t, 1, Len(t) - 1)) ELSE t

\* str.strip()
Strip(t) == RStrip(LStrip(t))

Spaces(n) == [k \in 1..n |-> " "]

RECURSIVE ReplaceNewlines(_, _)
ReplaceNewlines(t, ind) ==
    IF t = <<>> THEN <<>>
    ELSE IF Head(t) = "\n" THEN <<"\n">> \o ind \o ReplaceNewlines(Tail(t), ind)
    ELSE <<Head(t)>> \o ReplaceNewlines(Tail(t), ind)

\* forge.llm.prompting.utils.indent: the indentation is put in front of
\* the content and after every newline of it.
indent(content, n) == Spaces(n) \o ReplaceNewlines(content, Spaces(n))

Digits == <<"0", "1", "2", "3", "4", "5", "6", "7", "8", "9">>

\* str(k) of a non-negative integer, as the f-string formats it
RECURSIVE Str(_)
Str(k) == IF k < 10 THEN <<Digits[k + 1]>> ELSE Str(k \div 10) \o <<Digits[(k % 10) + 1]>>

RECURSIVE Join(_, _)
Join(sep, parts) ==
    IF parts = <<>> THEN <<>>
    ELSE IF Len(parts) = 1 THEN parts[1]
    ELSE parts[1] \o sep \o Join(sep, Tail(parts))

\* ------------------------------------------------------ token counters
\* count_tokens is supplied by the caller; two counters stand for it:
\*   chars     one token per character
\*   weighted  a vocabulary in which "X" costs 30 tokens, "y" costs 5
\*             and every other character costs nothing
Counters == {"chars", "weighted"}

Weight(c) == IF c = "X" THEN 30 ELSE IF c = "y" THEN 5 ELSE 0

RECURSIVE WeightedCount(_)
WeightedCount(t) == IF t = <<>> THEN 0 ELSE Weight(Head(t)) + WeightedCount(Tail(t))

CountTokens(ct, text) ==
    IF Val(ct) = "chars" THEN Len(text) ELSE WeightedCount(text)

\* ------------------------------------------------------------- episodes
Actions == {"X", "a"}

Results == {"r"}

SummaryText == <<"y">>

\* the (max_tokens, count_tokens) pairs callers pass: no budget and a
\* budget of 0, each without and with a counter; budgets of 20, 30 and 100
\* with a counter; a budget of 100 without one
CallArgs ==
    ({None, Some(0)} \X {None, Some("chars")})
      \cup {<<Some(30), Some("chars")>>, <<Some(20), Some("weighted")>>}
      \cup ({Some(100)} \X ({None} \cup {Some(c) : c \in Counters}))

Episode(action) == [action |-> action, result |-> None, summary |-> None]

\* Episode.format(): the action, then the result when there is one
format(episode) ==
    <<episode.action>>
      \o (IF IsNone(episode.result) THEN <<>> ELSE <<"\n", Val(episode.result)>>)
      \o <<"\n">>

\* ----------------------------------------------------- _compile_progress
RecentWindow == 4

\* line 60: max_tokens and not count_tokens
ConfigError_IsNotNone(max_tokens, count_tokens) ==
    ~IsNone(max_tokens) /\ IsNone(count_tokens)

ConfigError(max_tokens, count_tokens) == Truthy(max_tokens) /\ IsNone(count_tokens)

\* line 76: max_tokens and count_tokens
BudgetActive(max_tokens, count_tokens) == Truthy(max_tokens) /\ ~IsNone(count_tokens)

Reverse(s) == [k \in 1..Len(s) |-> s[Len(s) + 1 - k]]

\* line 67: reversed(episode_history) gives a reverse iterator (items) and
\* leaves the list object (list) as it is
reversed_InPlace(episode_history) ==
    [items |-> Reverse(episode_history), list |-> Reverse(episode_history)]

reversed(episode_history) ==
    [items |-> Reverse(episode_history), list |-> episode_history]

\* line 69
UseFullFormat_OffByOne(i, episode) == i <= RecentWindow \/ IsNone(episode.summary)

UseFullFormat(i, episode) == i < RecentWindow \/ IsNone(episode.summary)

\* lines 69-72
StepContent(i, episode) ==
    IF UseFullFormat(i, episode)
    THEN Strip(indent(format(episode), 2))
    ELSE Val(episode.summary)

\* line 74: the step number n_episodes - i
StepNumber_FromNewest(n_episodes, i) == i + 1

StepNumber(n_episodes, i) == n_episodes - i

\* line 74: f"* Step {k}: {step_content}"
StepText(k, step_content) ==
    <<"*", " ", "S", "t", "e", "p", " ">> \o Str(k) \o <<":", " ">> \o step_content

\* line 78
Overflows_NoTotal(tokens, step_tokens, max_tokens) == step_tokens > Val(max_tokens)

Overflows_BeforeAdd(tokens, step_tokens, max_tokens) == tokens > Val(max_tokens)

Overflows(tokens, step_tokens, max_tokens) == tokens + step_tokens > Val(max_tokens)

\* line 79: break leaves the loop (the next index is past the last episode)
Break_Continue(i, n_episodes) == i + 1

Break(i, n_episodes) == n_episodes

\* line 82: steps.insert(0, step)
InsertStep(steps, step) == <<step>> \o steps

\* lines 63-82: the loop, from index i on; acc holds the locals and the
\* numbers of format() and count_tokens() calls made so far
RECURSIVE Scan(_, _, _, _, _)
Scan(items, max_tokens, count_tokens, i, acc) ==
    IF i >= Len(items) THEN acc
    ELSE
      LET n_episodes == Len(items)
          episode == items[i + 1]
          full == UseFullFormat(i, episode)
          step == StepText(StepNumber(n_episodes, i), StepContent(i, episode))
          rendered == [acc EXCEPT !.format_calls = @ + (IF full THEN 1 ELSE 0)]
      IN IF BudgetActive(max_tokens, count_tokens)
         THEN LET step_tokens == CountTokens(count_tokens, step)
                  counted == [rendered EXCEPT !.count_calls = @ + 1]
              IN IF Overflows(acc.tokens, step_tokens, max_tokens)
                 THEN Scan(items, max_tokens, count_tokens, Break(i, n_episodes), counted)
                 ELSE Scan(items, max_tokens, count_tokens, i + 1,
                           [counted EXCEPT !.tokens = @ + step_tokens,
                                           !.steps = InsertStep(@, step)])
         ELSE Scan(items, max_tokens, count_tokens, i + 1,
                   [rendered EXCEPT !.steps = InsertStep(@, step)])

\* lines 54-84: the outcome of one call
_compile_progress(episode_history, max_tokens, count_tokens) ==
    IF ConfigError(max_tokens, count_tokens)
    THEN [raised |-> TRUE, steps |-> <<>>, text |-> <<>>, tokens |-> 0,
          format_calls |-> 0, count_calls |-> 0,
          max_tokens |-> max_tokens, count_tokens |-> count_tokens,
          episode_history |-> episode_history]
    ELSE LET it == reversed(episode_history)
             acc == Scan(it.items, max_tokens, count_tokens, 0,
                         [steps |-> <<>>, tokens |-> 0,
                          format_calls |-> 0, count_calls |-> 0])
         IN [raised |-> FALSE, steps |-> acc.steps,
             text |-> Join(<<"\n", "\n">>, acc.steps), tokens |-> acc.tokens,
             format_calls |-> acc.format_calls, count_calls |-> acc.count_calls,
             max_tokens |-> max_tokens, count_tokens |-> count_tokens,
             episode_history |-> it.list]

\* ---------------------------------------------------------------- state
NoCall == <<>>

Init ==
    /\ episodes = <<>>
    /\ pc = "idle"
    /\ ret = NoCall

HasPending == episodes # <<>> /\ IsNone(episodes[Len(episodes)].result)

\* EpisodicActionHistory.register_action: append an action-only episode
register_action(history, action) == Append(history, Episode(action))

\* EpisodicActionHistory.register_result: attach the result to the most
\* recent episode
register_result(history, result) ==
    [history EXCEPT ![Len(history)].result = Some(result)]

\* the step loop is serialized: the driver calls a hook only when no other
\* call is running (an awaited after_execute has returned)
DriverFree == pc = "idle"

\* after_parse: the driver has decided the next action, the previous one
\* having its result
after_parse(action) ==
    /\ DriverFree
    /\ ~HasPending
    /\ Len(episodes) < MaxEpisodes
    /\ episodes' = register_action(episodes, action)
    /\ UNCHANGED <<pc, ret>>

\* after_execute up to its await: register_result, then the coroutine
\* awaits handle_compression
after_execute(result) ==
    /\ DriverFree
    /\ HasPending
    /\ episodes' = register_result(episodes, result)
    /\ pc' = "compressing"
    /\ UNCHANGED ret

\* handle_compression: the summarizer succeeds for one episode that lacks a
\* summary (a failure leaves the summary absent and changes nothing)
handle_compression(k) ==
    /\ pc = "compressing"
    /\ k \in 1..Len(episodes)
    /\ ~IsNone(episodes[k].result)
    /\ IsNone(episodes[k].summary)
    /\ episodes' = [episodes EXCEPT ![k].summary = Some(SummaryText)]
    /\ UNCHANGED <<pc, ret>>

\* the awaited compression pass is over: after_execute returns
after_execute_return ==
    /\ pc = "compressing"
    /\ pc' = "idle"
    /\ UNCHANGED <<episodes, ret>>

\* a call of _compile_progress on the ledger; the list object the callee
\* was handed is the ledger's own list
compile_progress(max_tokens, count_tokens) ==
    /\ DriverFree
    /\ ret' = _compile_progress(episodes, max_tokens, count_tokens)
    /\ episodes' = ret'.episode_history
    /\ pc' = "returned"

\* the same call once more, with the arguments of the call that has just
\* returned
compile_progress_again ==
    /\ pc = "returned"
    /\ ret' = _compile_progress(episodes, ret.max_tokens, ret.count_tokens)
    /\ episodes' = ret'.episode_history
    /\ pc' = "returned"

\* get_messages: the caller takes the returned string (or the exception)
get_messages_done ==
    /\ pc = "returned"
    /\ pc' = "idle"
    /\ ret' = NoCall
    /\ UNCHANGED episodes

Next ==
    \/ \E action \in Actions : after_parse(action)
    \/ \E result \in Results : after_execute(result)
    \/ \E k \in 1..MaxEpisodes : handle_compression(k)
    \/ after_execute_return
    \/ \E args \in CallArgs : compile_progress(args[1], args[2])
    \/ compile_progress_again
    \/ get_messages_done

Spec == Init /\ [][Next]_vars

\* ------------------------------------------------------------ properties
N == Len(episodes)

Returned == pc = "returned"

\* the step the k-th episode (1 = oldest) is rendered as
ExpectedStep(k) == StepText(k, StepContent(N - k, episodes[k]))

Cost(k) == CountTokens(ret.count_tokens, ExpectedStep(k))

\* what count_tokens gives for the steps of a list, added up
RECURSIVE SumTokens(_)
SumTokens(steps) ==
    IF steps = <<>> THEN 0
    ELSE CountTokens(ret.count_tokens, Head(steps)) + SumTokens(Tail(steps))

Budgeted ==
    /\ Returned
    /\ ~ret.raised
    /\ ~IsNone(ret.max_tokens) /\ Val(ret.max_tokens) # 0
    /\ ~IsNone(ret.count_tokens)

\* C1: whenever a call with a max_tokens value and a count_tokens function
\* returns, count_tokens of the returned string is at most max_tokens
\* (stated for the calls in which the budget is in force, max_tokens not 0).
C1_DigestWithinBudget ==
    Budgeted => CountTokens(ret.count_tokens, ret.text) <= Val(ret.max_tokens)

\* C2: with a budget active the kept steps are exactly steps m..N for some
\* m, whole and in increasing order; together they fit the budget, and
\* step m-1 (when there is one) is the step that did not fit on top of
\* them; nothing older than it is kept.
C2_HardCutoff ==
    Budgeted =>
        LET kept == Len(ret.steps)
            m == N - kept + 1
        IN /\ kept <= N
           /\ \A j \in 1..kept : ret.steps[j] = ExpectedStep(m + j - 1)
           /\ SumTokens(ret.steps) <= Val(ret.max_tokens)
           /\ m > 1 => Cost(m - 1) + SumTokens(ret.steps) > Val(ret.max_tokens)

\* a step older than the first non-fitting one would have fitted in the
\* budget that was left, and is dropped all the same
C2_Witness ==
    /\ Budgeted
    /\ ret.steps # <<>>
    /\ \E k \in 1..(N - Len(ret.steps) - 1) :
           Cost(k) + SumTokens(ret.steps) <= Val(ret.max_tokens)

\* C3: without a budget (max_tokens absent) the call returns exactly N
\* steps, the k-th being episode k labelled k, joined by blank lines.
C3_NoBudgetAllSteps ==
    (Returned /\ IsNone(ret.max_tokens)) =>
        /\ ~ret.raised
        /\ Len(ret.steps) = N
        /\ \A k \in 1..N : ret.steps[k] = ExpectedStep(k)
        /\ ret.text = Join(<<"\n", "\n">>, ret.steps)

C3_Witness ==
    /\ Returned
    /\ IsNone(ret.max_tokens)
    /\ N >= 5
    /\ Len(ret.steps) = N

\* C4: whenever max_tokens is provided and count_tokens is absent the call
\* raises, and nothing was rendered or built before it did.
C4_ConfigErrorBeforeRendering ==
    (Returned /\ ~IsNone(ret.max_tokens) /\ IsNone(ret.count_tokens)) =>
        /\ ret.raised
        /\ ret.format_calls = 0
        /\ ret.steps = <<>>

Scenario6 ==
    /\ Returned
    /\ N = 6
    /\ ret.max_tokens = Some(100)
    /\ ret.count_tokens = Some("weighted")
    /\ \A k \in 1..N : episodes[k].action = "X"

\* C6 as stated: in the scenario the digest is step 6 alone.
C6_OnlyStep6 == Scenario6 => ret.steps = <<ExpectedStep(6)>>

\* C6 amended: in the scenario steps 6, 5 and 4 fit (90 tokens), step 3
\* would make 120, so the digest is steps 4, 5, 6 in that order.
C6_Steps4To6 ==
    Scenario6 =>
        /\ ret.steps = <<ExpectedStep(4), ExpectedStep(5), ExpectedStep(6)>>
        /\ ret.text = Join(<<"\n", "\n">>, ret.steps)
        /\ \A k \in 3..6 : Cost(k) = 30
        /\ SumTokens(ret.steps) = 90

C6_Witness == Scenario6 /\ ~ret.raised /\ Len(ret.steps) = 3

\* C7: with a budget active, when the newest step alone costs more than
\* max_tokens the call returns the empty string and does not raise.
C7_NothingFits ==
    (Budgeted /\ N >= 1 /\ Cost(N) > Val(ret.max_tokens)) =>
        /\ ~ret.raised
        /\ ret.steps = <<>>
        /\ ret.text = <<>>

\* the newest step does not fit while an older one would
C7_Witness ==
    /\ Budgeted
    /\ N >= 2
    /\ Cost(N) > Val(ret.max_tokens)
    /\ \E k \in 1..(N - 1) : Cost(k) <= Val(ret.max_tokens)
    /\ ret.text = <<>>

\* C8: every rendered step at recency index i shows the summary if and only
\* if i >= 4 and the summary is present, and the full format() rendering
\* (indented, stripped) otherwise.
C8_Tiering ==
    (Returned /\ ~ret.raised) =>
        \A j \in 1..Len(ret.steps) :
            LET k == N - Len(ret.steps) + j
                i == N - k
                ep == episodes[k]
            IN ret.steps[j] =
                 StepText(k, IF i >= 4 /\ ~IsNone(ep.summary)
                             THEN Val(ep.summary)
                             ELSE Strip(indent(format(ep), 2)))

\* a digest that shows a summary at index 4, a full rendering of a
\* summarised episode at index 3 and of an unsummarised one at index 5
C8_Witness ==
    /\ Returned
    /\ ~ret.raised
    /\ N >= 6
    /\ Len(ret.steps) = N
    /\ ~IsNone(episodes[N - 4].summary)
    /\ ~IsNone(episodes[N - 3].summary)
    /\ IsNone(episodes[N - 5].summary)

AnyAfterParse == \E action \in Actions : after_parse(action)

\* C9: once after_execute has attached the result, the driver can go on to
\* the next action while the compression pass it started is still running.
C9_NonBlocking ==
    (pc = "compressing" /\ ~HasPending /\ N < MaxEpisodes) => ENABLED AnyAfterParse

\* C10: max_tokens = 0 is treated as no budget: the call does not raise
\* (count_tokens absent or not), never calls count_tokens and returns all N
\* steps; and count_tokens is called, or a step dropped, only when
\* max_tokens is a non-zero integer and count_tokens is supplied.
C10_ZeroIsNoBudget ==
    /\ (Returned /\ ret.max_tokens = Some(0)) =>
           /\ ~ret.raised
           /\ ret.count_calls = 0
           /\ Len(ret.steps) = N
           /\ \A k \in 1..N : ret.steps[k] = ExpectedStep(k)
    /\ (Returned /\ ~ret.raised /\ (ret.count_calls > 0 \/ Len(ret.steps) < N)) =>
           /\ ~IsNone(ret.max_tokens) /\ Val(ret.max_tokens) # 0
           /\ ~IsNone(ret.count_tokens)

C10_Witness ==
    /\ Returned
    /\ ret.max_tokens = Some(0)
    /\ IsNone(ret.count_tokens)
    /\ N >= 1
    /\ Len(ret.steps) = N

====
